---- MODULE Spec2Model ----
(***************************************************************************)
(* Model of market_strategy_app.py: the Monte-Carlo pricing simulation     *)
(* simulate_strategy and the parts of main() that consume its result       *)
(* (the break-even KPI and the random row sample).                         *)
(*                                                                         *)
(* Numbers are exact rationals <<n, d>> with d > 0 in lowest terms; the    *)
(* sign bit of a floating-point zero, which numpy's scale check looks at,  *)
(* is tracked separately (BaseSignBit, ScaleSignBit).  The process-global  *)
(* numpy generator is a position in a fixed but arbitrary stream of        *)
(* standard-normal variates (tape); seeding moves to a fixed position.     *)
(***************************************************************************)
EXTENDS Integers, Sequences, FiniteSets, TLC

VARIABLES tape,   \* the generator's output stream: position -> variate
          rng,    \* state of the process-global generator np.random
          call,   \* the latest simulate_strategy call: arguments and outcome
          ref,    \* an earlier call kept for comparison (history)
          op      \* the operation that produced the current state

vars == <<tape, rng, call, ref, op>>

----------------------------------------------------------------------------
(* Bounds *)

\* largest number of trials (simulations) a caller asks for
MaxTrials == 2

\* number of rows main() asks results.sample for, scaled down from 1000
SampleRows == 1

\* period of the modelled generator: long enough for one full run
Period == MaxTrials + 1

----------------------------------------------------------------------------
(* Exact rational arithmetic *)

Abs(i) == IF i < 0 THEN -i ELSE i

RECURSIVE GCD(_, _)
GCD(a, b) == IF b = 0 THEN a ELSE GCD(b, a % b)

Norm(n, d) ==
    LET s == IF d < 0 THEN -1 ELSE 1
        g == GCD(Abs(n), Abs(d))
    IN  <<(s * n) \div g, (s * d) \div g>>

Q(n, d) == Norm(n, d)
R(i) == <<i, 1>>

RAdd(x, y) == Norm(x[1] * y[2] + y[1] * x[2], x[2] * y[2])
RSub(x, y) == Norm(x[1] * y[2] - y[1] * x[2], x[2] * y[2])
RMul(x, y) == Norm(x[1] * y[1], x[2] * y[2])
RDiv(x, y) == Norm(x[1] * y[2], x[2] * y[1])
RLt(x, y) == x[1] * y[2] < y[1] * x[2]
RLe(x, y) == x[1] * y[2] <= y[1] * x[2]
RMax(x, y) == IF RLt(x, y) THEN y ELSE x
RMin(x, y) == IF RLt(y, x) THEN y ELSE x

Zero == R(0)
One == R(1)

NaN == <<0, 0>>

----------------------------------------------------------------------------
(* Program constants and the argument values callers pass *)

\* np.random.seed(42)
Seed == 42

\* the strategy presets of the sidebar: Penetration, Low Price, Premium
Prices == {Q(3, 2), R(3), R(10)}
Costs == {R(0), R(2)}
Elasticities == {R(-1), R(0), Q(1, 2), R(1)}
MarketSizes == {R(0), R(1000)}
NoiseStds == {Q(-1, 20), R(0), Q(1, 20), Q(1, 2)}
Trials == -1 .. MaxTrials

\* standard-normal variates the generator can emit
ZVals == {R(-3), R(3)}

AllArgs ==
    [price : Prices, cost : Costs, elasticity : Elasticities,
     market_size : MarketSizes, simulations : Trials, noise_std : NoiseStds]

\* the arguments the determinism specification replays
ReplayArgs ==
    [price : {Q(3, 2), R(3)}, cost : {R(2)}, elasticity : {R(1)},
     market_size : {R(1000)}, simulations : {1, MaxTrials},
     noise_std : {R(0), Q(1, 2)}]

\* what the sidebar shows before any interaction: the first preset, the
\* widgets' default values and the function's default keyword arguments
\* (the trial count scaled down to the bound)
DefaultArgs ==
    [price |-> R(3), cost |-> R(2), elasticity |-> R(1),
     market_size |-> R(1000), simulations |-> MaxTrials,
     noise_std |-> Q(1, 20)]

None == [status |-> "none", args |-> DefaultArgs]

----------------------------------------------------------------------------
(* The process-global generator *)

\* a seed call that leaves the generator where it was
NpRandomSeedIgnored(state, seed) == state

\* np.random.seed(seed): the state depends on the seed alone
NpRandomSeed(state, seed) == seed % Period

\* the state after drawing n variates
Advance(state, n) == (state + n) % Period

\* the i-th variate drawn from state (i = 1 is the first)
Gauss(state, i) == tape[(state + i - 1) % Period]

\* a sampler that returns one variate too few
NormalOneShort(loc, scale, size, state) ==
    [i \in 1 .. size - 1 |-> RAdd(loc, RMul(scale, Gauss(state, i)))]

\* np.random.normal(loc, scale, size) once the arguments are accepted
Normal(loc, scale, size, state) ==
    [i \in 1 .. size |-> RAdd(loc, RMul(scale, Gauss(state, i)))]

----------------------------------------------------------------------------
(* simulate_strategy *)

\* a markup taken relative to the price instead of the cost
FactorOverPrice(a) ==
    RSub(One, RDiv(RMul(a.elasticity, RSub(a.price, a.cost)), a.price))

\* the (price - cost) / cost division raises when cost is zero
Factor(a) ==
    RSub(One, RDiv(RMul(a.elasticity, RSub(a.price, a.cost)), a.cost))

BaseDemand(a) == RMul(a.market_size, Factor(a))

\* sign bit of the float base_demand; a zero product of a negative and a
\* zero operand is -0.0, a zero difference is +0.0
BaseSignBit(a) == (a.market_size[1] < 0) # (Factor(a)[1] < 0)

\* sign bit of scale = base_demand * noise_std
ScaleSignBit(a) == BaseSignBit(a) # (a.noise_std[1] < 0)

\* a clip that forgets the upper bound
ClipLowerOnly(xs, lo, hi) == [i \in 1 .. Len(xs) |-> RMax(xs[i], lo)]

\* np.clip(x, lo, hi) = minimum(maximum(x, lo), hi), elementwise
Clip(xs, lo, hi) == [i \in 1 .. Len(xs) |-> RMin(RMax(xs[i], lo), hi)]

\* the three columns of the DataFrame
Frame(demand_dist, price, cost) ==
    [Demand  |-> demand_dist,
     Revenue |-> [i \in 1 .. Len(demand_dist) |-> RMul(demand_dist[i], price)],
     Profit  |-> [i \in 1 .. Len(demand_dist) |->
                      RMul(demand_dist[i], RSub(price, cost))]]

\* how the call ends
Status(a) ==
    IF a.cost = Zero THEN "ZeroDivisionError"
    ELSE IF ScaleSignBit(a) \/ a.simulations < 0 THEN "ValueError"
    ELSE "ok"

\* a call that draws before it checks its arguments
RngAfterAlwaysDrawn(status, seeded, simulations) ==
    Advance(seeded, simulations)

\* a call that puts the generator back to the seeded state
RngAfterNotAdvanced(status, seeded, simulations) == seeded

\* the generator after the call, seeded being its state after line 19
RngAfter(status, seeded, simulations) ==
    IF status = "ok" THEN Advance(seeded, simulations) ELSE seeded

\* revenue and profit taken from the samples before clipping
ResultsMoneyFromSampled(a, seeded) ==
    LET base_demand == BaseDemand(a)
        sampled == Normal(base_demand, RMul(base_demand, a.noise_std),
                          a.simulations, seeded)
        demand_dist == Clip(sampled, Zero, a.market_size)
    IN  [Frame(sampled, a.price, a.cost) EXCEPT !.Demand = demand_dist]

Results(a, seeded) ==
    LET base_demand == BaseDemand(a)
        sampled == Normal(base_demand, RMul(base_demand, a.noise_std),
                          a.simulations, seeded)
        demand_dist == Clip(sampled, Zero, a.market_size)
    IN  Frame(demand_dist, a.price, a.cost)

SimulateStrategy(a) ==
    LET seeded == NpRandomSeed(rng, Seed)
        status == Status(a)
    IN  /\ rng' = RngAfter(status, seeded, a.simulations)
        /\ call' = IF status = "ok"
                   THEN [status |-> status, args |-> a, rng0 |-> rng,
                         results |-> Results(a, seeded)]
                   ELSE [status |-> status, args |-> a, rng0 |-> rng]
        /\ op' = "simulate_strategy"
        /\ UNCHANGED tape

----------------------------------------------------------------------------
(* main(): the consumers of the result *)

\* (results['Profit'] > 0).mean(); the mean of no values is 0/0
BreakevenChance(results) ==
    LET n == Len(results.Profit)
        k == Cardinality({i \in 1 .. n : RLt(Zero, results.Profit[i])})
    IN  IF n = 0 THEN NaN ELSE Q(k, n)

\* results.sample(...) draws from the process-global generator; asking for
\* more rows than there are raises before anything is drawn
Sample ==
    /\ call.status = "ok"
    /\ \E k \in 1 .. Period - 1 :
          rng' = IF Len(call.results.Demand) >= SampleRows
                 THEN Advance(rng, k) ELSE rng
    /\ op' = "sample"
    /\ UNCHANGED <<tape, call, ref>>

----------------------------------------------------------------------------
(* Specifications *)

Init ==
    /\ tape \in [0 .. Period - 1 -> ZVals]
    /\ rng \in 0 .. Period - 1
    /\ call = None
    /\ ref = None
    /\ op = "init"

\* a caller changes one argument and runs the simulation again, as a
\* Streamlit rerun does after one widget changed
Rerun(a) == SimulateStrategy(a) /\ UNCHANGED ref

Run ==
    \/ \E v \in Prices : Rerun([call.args EXCEPT !.price = v])
    \/ \E v \in Costs : Rerun([call.args EXCEPT !.cost = v])
    \/ \E v \in Elasticities : Rerun([call.args EXCEPT !.elasticity = v])
    \/ \E v \in MarketSizes : Rerun([call.args EXCEPT !.market_size = v])
    \/ \E v \in Trials : Rerun([call.args EXCEPT !.simulations = v])
    \/ \E v \in NoiseStds : Rerun([call.args EXCEPT !.noise_std = v])

Next == Run \/ Sample

Spec == Init /\ [][Next]_vars

\* a caller replays the simulation, keeping either the remembered call or
\* the one being replaced for comparison
Replay ==
    \E a \in ReplayArgs : SimulateStrategy(a) /\ ref' \in {ref, call}

NextReplay == Replay \/ Sample

SpecReplay == Init /\ [][NextReplay]_vars

----------------------------------------------------------------------------
(* Properties *)

\* the parameter constraints of the data model
ValidArgs(a) ==
    /\ RLt(Zero, a.price) /\ RLt(Zero, a.cost) /\ RLe(Zero, a.elasticity)
    /\ RLt(Zero, a.market_size) /\ a.simulations > 0
    /\ RLe(Zero, a.noise_std)

Returned == call.status = "ok"
Failed == call.status \notin {"ok", "none"}
JustRan == op = "simulate_strategy"
Rows == 1 .. Len(call.results.Demand)
InUnit(x) == x[2] # 0 /\ RLe(Zero, x) /\ RLe(x, One)
Clamped(x, hi) == RMin(RMax(x, Zero), hi)
FreshlySeeded == Seed % Period

\* C1: for valid parameters every demand value of a returned result lies
\* in [0, market_size]
C1_DemandWithinMarket ==
    (Returned /\ ValidArgs(call.args)) =>
        \A i \in Rows :
            /\ RLe(Zero, call.results.Demand[i])
            /\ RLe(call.results.Demand[i], call.args.market_size)

\* a valid run in which one sample was clamped at 0 and one at market_size
C1_Witness ==
    /\ Returned /\ ValidArgs(call.args)
    /\ \E i, j \in Rows :
          /\ call.results.Demand[i] = Zero
          /\ call.results.Demand[j] = call.args.market_size

\* C2: for valid parameters a returned result has exactly simulations rows
\* in each of its three columns
C2_RowCount ==
    (Returned /\ ValidArgs(call.args)) =>
        /\ Len(call.results.Demand) = call.args.simulations
        /\ Len(call.results.Revenue) = call.args.simulations
        /\ Len(call.results.Profit) = call.args.simulations

\* a valid run with the largest trial count returned
C2_Witness ==
    /\ Returned /\ ValidArgs(call.args)
    /\ call.args.simulations = MaxTrials
    /\ Len(call.results.Profit) = MaxTrials

\* C3: in every row of a returned result revenue is the clamped demand
\* times price and profit the clamped demand times (price - cost)
C3_MoneyFromClampedDemand ==
    Returned =>
        \A i \in Rows :
            LET d == call.results.Demand[i]
            IN  /\ d = Clamped(d, call.args.market_size)
                /\ call.results.Revenue[i] = RMul(d, call.args.price)
                /\ call.results.Profit[i] =
                       RMul(d, RSub(call.args.price, call.args.cost))

\* a valid run whose baseline exceeds the market, so that the demand the
\* money columns use differs from the sample
C3_Witness ==
    /\ Returned /\ ValidArgs(call.args)
    /\ RLt(call.args.market_size, BaseDemand(call.args))
    /\ call.results.Revenue[1] = RMul(call.args.market_size, call.args.price)
    /\ call.results.Profit[1] # Zero

\* C4: two runs with the same arguments end the same way and return the
\* same rows, whatever the generator's state was when each began
C4_SameArgsSameResult ==
    (ref.status # "none" /\ call.status # "none" /\ ref.args = call.args) =>
        /\ ref.status = call.status
        /\ Returned => ref.results = call.results

\* two returned runs with the same arguments, started from different
\* generator states, whose rows depend on the variates drawn
C4_Witness ==
    /\ ref.status = "ok" /\ Returned /\ ref.args = call.args
    /\ ref.rng0 # call.rng0
    /\ Len(call.results.Demand) = MaxTrials
    /\ call.results.Demand[1] # call.results.Demand[2]

\* C5: a run with cost <= 0, market_size <= 0, simulations <= 0,
\* elasticity < 0 or noise_std < 0 fails with InvalidParameter
C5_InvalidRejected ==
    (JustRan /\ (\/ RLe(call.args.cost, Zero)
                 \/ RLe(call.args.market_size, Zero)
                 \/ call.args.simulations <= 0
                 \/ RLt(call.args.elasticity, Zero)
                 \/ RLt(call.args.noise_std, Zero))) =>
        call.status = "InvalidParameter"

C7_NegativeBaselineReturns ==
    (JustRan /\ ValidArgs(call.args) /\ RLt(BaseDemand(call.args), Zero)) =>
        /\ Returned
        /\ Len(call.results.Demand) = call.args.simulations
        /\ \A i \in Rows :
              call.results.Demand[i] =
                  Clamped(call.results.Demand[i], call.args.market_size)

\* the baseline demand as the claim writes it
C8_Baseline(a) ==
    RMul(a.market_size,
         RSub(One, RDiv(RMul(a.elasticity, RSub(a.price, a.cost)), a.cost)))

C8_Scenario(price, cost, elasticity, market_size) ==
    /\ call.args.price = price /\ call.args.cost = cost
    /\ call.args.elasticity = elasticity
    /\ call.args.market_size = market_size

\* C8: for valid parameters with noise_std = 0 every demand of a returned
\* result is the baseline clamped into [0, market_size]; it is market_size
\* at elasticity 0, 750 / 2250 / 750 and 1000 / 1500 / -500 in the two
\* scenarios
C8_ZeroNoiseIsBaseline ==
    (Returned /\ ValidArgs(call.args) /\ call.args.noise_std = Zero) =>
        \A i \in Rows :
            /\ call.results.Demand[i] =
                   Clamped(C8_Baseline(call.args), call.args.market_size)
            /\ call.args.elasticity = Zero =>
                   call.results.Demand[i] = call.args.market_size
            /\ C8_Scenario(R(3), R(2), Q(1, 2), R(1000)) =>
                   /\ call.results.Demand[i] = R(750)
                   /\ call.results.Revenue[i] = R(2250)
                   /\ call.results.Profit[i] = R(750)
            /\ C8_Scenario(Q(3, 2), R(2), R(1), R(1000)) =>
                   /\ call.results.Demand[i] = R(1000)
                   /\ call.results.Revenue[i] = R(1500)
                   /\ call.results.Profit[i] = R(-500)

\* the first scenario ran without noise and returned rows
C8_Witness ==
    /\ Returned /\ ValidArgs(call.args) /\ call.args.noise_std = Zero
    /\ C8_Scenario(R(3), R(2), Q(1, 2), R(1000))
    /\ call.results.Demand[1] = R(750)

\* C9 as stated: a run leaves the process-global generator as it found it
C9_GlobalGeneratorUntouched == JustRan => rng = call.rng0

\* C9 amended: a run changes only its result and the process-global
\* generator, which ends seeded with 42 and advanced by the rows returned,
\* whatever its state before
C9_OnlyGlobalGeneratorChanges ==
    [][op' = "simulate_strategy" =>
          /\ tape' = tape
          /\ ref' = ref
          /\ call'.rng0 = rng
          /\ rng' = IF call'.status = "ok"
                    THEN (FreshlySeeded + call'.args.simulations) % Period
                    ELSE FreshlySeeded]_vars

\* a returned run that moved the process-global generator
C9_Witness ==
    /\ JustRan /\ Returned /\ call.args.simulations > 0
    /\ rng # call.rng0

\* C10: the break-even chance of any returned result lies in [0, 1]
C10_BreakevenInUnit ==
    Returned => InUnit(BreakevenChance(call.results))

====
